---------------------------- MODULE Spec2Model ----------------------------
(***************************************************************************)
(* Model of the anonymization backend (src/backend/server.py): the pattern *)
(* extractor with its checksum validator, the NER adapter and its naming   *)
(* counters, the pooling and deduplication done by process_document, the   *)
(* Ollama adapter's probes, and the splice loop of apply_anonymization.    *)
(*                                                                         *)
(* Text is a sequence of code points (chr/ord of the source), so that      *)
(* slicing, chr(64 + counter) and the digit arithmetic of the checksum are *)
(* computed as the code computes them.  Offsets are 0-based as in Python;  *)
(* TLA+ sequences are 1-based, the slice operators convert.                *)
(***************************************************************************)
EXTENDS Integers, Sequences, FiniteSets, TLC

VARIABLES
    nlp,             \* module global nlp: TRUE iff spacy.load succeeded
    person_counter,  \* ner_service.person_counter
    org_counter,     \* ner_service.org_counter
    pc,              \* position of the request being served ("idle" between requests)
    req,             \* the request being served / last served
    loc,             \* local variables of the handler being executed
    resp,            \* the response of the last completed request
    last_probe       \* history: <<what the last check_availability() returned>>,
                     \* <<>> before the first call; the code keeps no such state

vars == <<nlp, person_counter, org_counter, pc, req, loc, resp, last_probe>>

----------------------------------------------------------------------------
(* Bounds of the model *)

\* Largest number of entities a caller sends to /generate-document.
MaxEntities == 2

\* Largest number of entities self.nlp(text) reports for one text.
MaxEnts == 2

\* Largest value the naming counters of ner_service reach (they grow without
\* bound in the code; the extraction that would pass it is not taken).
MaxCounter == 3

\* Number of trailing digits of the sample SIRET numbers that vary.
FreeDigits == 2

\* Largest number of models an Ollama server lists.
MaxModels == 1

----------------------------------------------------------------------------
(* Python str primitives *)

\* Python's normalisation of a slice bound i for a sequence of length n:
\* a negative bound counts from the end, then the bound is clamped to 0..n.
NormIndex(i, n) ==
    LET j == IF i < 0 THEN i + n ELSE i
    IN  IF j < 0 THEN 0 ELSE IF j > n THEN n ELSE j

\* s[:i]
SliceTo(s, i) == SubSeq(s, 1, NormIndex(i, Len(s)))

\* s[i:]
SliceFrom(s, i) == SubSeq(s, NormIndex(i, Len(s)) + 1, Len(s))

\* s[i:j]
Slice(s, i, j) == SubSeq(s, NormIndex(i, Len(s)) + 1, NormIndex(j, Len(s)))

RECURSIVE SumSeq(_)
SumSeq(s) == IF s = <<>> THEN 0 ELSE Head(s) + SumSeq(Tail(s))

----------------------------------------------------------------------------
(* Data model *)

\* Position(start, end)
Position(start, end) == [start |-> start, end |-> end]

\* Entity(...).  id is the uuid4 default: abstracted by a number the creator
\* keeps distinct.  confidence is in hundredths (1.0 = 100).
Entity(id, text, type, source, confidence, replacement, positions, selected) ==
    [id |-> id, text |-> text, type |-> type, source |-> source,
     confidence |-> confidence, replacement |-> replacement,
     positions |-> positions, selected |-> selected]

----------------------------------------------------------------------------
(* Python re: the constructs the patterns of RegexService use.  Text is a  *)
(* str, so classes are the Unicode ones; the model's texts hold code       *)
(* points below 256 and the classes are listed for that range.             *)

Digits == 48..57                                   \* \d
Whitespace == (9..13) \cup (28..32) \cup {133, 160}  \* \s
UpperAZ == 65..90                                  \* A-Z
LowerAZ == 97..122                                 \* a-z
WordChars ==                                       \* \w
    Digits \cup UpperAZ \cup LowerAZ \cup {95, 170, 178, 179, 181, 185, 186}
    \cup (188..190) \cup (192..214) \cup (216..246) \cup (248..255)

\* The other case of a cased character (re.IGNORECASE), the character itself
\* when it has none below 256.
SwapCase(c) ==
    IF c \in UpperAZ \/ (c \in 192..222 /\ c # 215) THEN c + 32
    ELSE IF c \in LowerAZ \/ (c \in 224..254 /\ c # 247) THEN c - 32
    ELSE c

\* Pattern nodes.  hi = -1 stands for an unbounded repetition.
Chars(set) == [k |-> "set", cs |-> set, rs |-> <<>>, lo |-> 0, hi |-> 0]
WordBoundary == [k |-> "wb", cs |-> {}, rs |-> <<>>, lo |-> 0, hi |-> 0]
Cat(rs) == [k |-> "cat", cs |-> {}, rs |-> rs, lo |-> 0, hi |-> 0]
Alt(rs) == [k |-> "alt", cs |-> {}, rs |-> rs, lo |-> 0, hi |-> 0]
Rep(r, lo, hi) == [k |-> "rep", cs |-> {}, rs |-> <<r>>, lo |-> lo, hi |-> hi]
Lit(s) == Cat([i \in 1..Len(s) |-> Chars({s[i]})])
Opt(r) == Rep(r, 0, 1)
Plus(r) == Rep(r, 1, -1)
Star(r) == Rep(r, 0, -1)

\* The character at 0-based offset i of t is a word character.
IsWordAt(t, i) == i >= 0 /\ i < Len(t) /\ t[i + 1] \in WordChars

\* The offsets at which a match of r can end when it starts at one of the
\* offsets of S; ic is re.IGNORECASE.
RECURSIVE Ends(_, _, _, _)
RECURSIVE CatEnds(_, _, _, _)
RECURSIVE RepEnds(_, _, _, _, _, _)
Ends(r, ic, t, S) ==
    CASE r.k = "set" ->
           { i + 1 : i \in { j \in S : /\ j < Len(t)
                                       /\ \/ t[j + 1] \in r.cs
                                          \/ ic /\ SwapCase(t[j + 1]) \in r.cs } }
      [] r.k = "wb" -> { i \in S : IsWordAt(t, i - 1) # IsWordAt(t, i) }
      [] r.k = "cat" -> CatEnds(r.rs, ic, t, S)
      [] r.k = "alt" -> UNION { Ends(r.rs[n], ic, t, S) : n \in 1..Len(r.rs) }
      [] r.k = "rep" -> RepEnds(r.rs[1], ic, t, S, r.lo, r.hi)
CatEnds(rs, ic, t, S) ==
    IF rs = <<>> \/ S = {} THEN S
    ELSE CatEnds(Tail(rs), ic, t, Ends(Head(rs), ic, t, S))
RepEnds(r, ic, t, S, lo, hi) ==
    IF S = {} \/ hi = 0 THEN S
    ELSE LET next == Ends(r, ic, t, S)
         IN  IF lo > 0 THEN RepEnds(r, ic, t, next, lo - 1, IF hi < 0 THEN hi ELSE hi - 1)
             ELSE S \cup RepEnds(r, ic, t, next \ S, 0, IF hi < 0 THEN hi ELSE hi - 1)

SetMax(S) == CHOOSE x \in S : \A y \in S : y <= x

\* re.finditer(pattern, text[, re.IGNORECASE]) from offset pos on: the
\* spans of the non-overlapping matches, left to right.  The backtracking
\* matcher returns, at the leftmost offset where a match starts, the match
\* its greedy quantifiers prefer; in every pattern of RegexService each
\* quantifier but the last is forced by the text (its class differs from
\* what follows it), so that match is the longest one at that offset.
RECURSIVE FindIterFrom(_, _, _, _)
FindIterFrom(r, ic, t, pos) ==
    IF pos > Len(t) THEN <<>>
    ELSE LET ends == Ends(r, ic, t, {pos})
         IN  IF ends = {} THEN FindIterFrom(r, ic, t, pos + 1)
             ELSE LET e == SetMax(ends)
                  IN  <<Position(pos, e)>>
                      \o FindIterFrom(r, ic, t, IF e > pos THEN e ELSE pos + 1)

\* No match starts anywhere when no match ends anywhere: settled in one pass
\* over the text before the scan.
FindIter(r, ic, t) ==
    IF Ends(r, ic, t, 0..Len(t)) = {} THEN <<>> ELSE FindIterFrom(r, ic, t, 0)

----------------------------------------------------------------------------
(* RegexService *)

Separator == Opt(Chars({46, 45} \cup Whitespace))            \* [.\-\s]?
PhoneGroups == Rep(Cat(<<Separator, Rep(Chars(Digits), 2, 2)>>), 4, 4)

\* r'\b0[1-9](?:[.\-\s]?\d{2}){4}\b' and r'\+33[1-9](?:[.\-\s]?\d{2}){4}\b'
phone_patterns ==
    << Cat(<<WordBoundary, Chars({48}), Chars(49..57), PhoneGroups, WordBoundary>>),
       Cat(<<Lit(<<43, 51, 51>>), Chars(49..57), PhoneGroups, WordBoundary>>) >>

\* r'\b[A-Za-z0-9._%+-]+@[A-Za-z0-9.-]+\.[A-Z|a-z]{2,}\b'
email_pattern ==
    Cat(<<WordBoundary,
          Plus(Chars(UpperAZ \cup LowerAZ \cup Digits \cup {46, 95, 37, 43, 45})),
          Chars({64}),
          Plus(Chars(UpperAZ \cup LowerAZ \cup Digits \cup {46, 45})),
          Chars({46}),
          Rep(Chars(UpperAZ \cup LowerAZ \cup {124}), 2, -1),
          WordBoundary>>)

\* r'\b\d{14}\b'
siret_pattern == Cat(<<WordBoundary, Rep(Chars(Digits), 14, 14), WordBoundary>>)

\* r'\b[12]\d{12}\b'
ssn_pattern ==
    Cat(<<WordBoundary, Chars({49, 50}), Rep(Chars(Digits), 12, 12), WordBoundary>>)

\* rue|avenue|boulevard|place|impasse|allée|chemin|route
StreetTypes ==
    Alt(<< Lit(<<114, 117, 101>>),
         Lit(<<97, 118, 101, 110, 117, 101>>),
         Lit(<<98, 111, 117, 108, 101, 118, 97, 114, 100>>),
         Lit(<<112, 108, 97, 99, 101>>),
         Lit(<<105, 109, 112, 97, 115, 115, 101>>),
         Lit(<<97, 108, 108, 233, 101>>),
         Lit(<<99, 104, 101, 109, 105, 110>>),
         Lit(<<114, 111, 117, 116, 101>>) >>)

\* r'\b\d+\s+(?:rue|...|route)\s+[A-Za-z\s]+\b' and r'\b\d{5}\s+[A-Z][a-zA-Z\s-]+\b'
address_patterns ==
    << Cat(<<WordBoundary, Plus(Chars(Digits)), Plus(Chars(Whitespace)), StreetTypes,
             Plus(Chars(Whitespace)),
             Plus(Chars(UpperAZ \cup LowerAZ \cup Whitespace)), WordBoundary>>),
       Cat(<<WordBoundary, Rep(Chars(Digits), 5, 5), Plus(Chars(Whitespace)),
             Chars(UpperAZ),
             Plus(Chars(UpperAZ \cup LowerAZ \cup Whitespace \cup {45})), WordBoundary>>) >>

\* r'\bRG\s+\d+/\d+\b', r'\bdossier\s+n°?\s*\d+[-/]\d+\b' and
\* r'\barticle\s+\d+(?:-\d+)?\b'
legal_patterns ==
    << Cat(<<WordBoundary, Lit(<<82, 71>>), Plus(Chars(Whitespace)), Plus(Chars(Digits)),
             Chars({47}), Plus(Chars(Digits)), WordBoundary>>),
       Cat(<<WordBoundary, Lit(<<100, 111, 115, 115, 105, 101, 114>>), Plus(Chars(Whitespace)), Chars({110}),
             Opt(Chars({176})), Star(Chars(Whitespace)), Plus(Chars(Digits)),
             Chars({45, 47}), Plus(Chars(Digits)), WordBoundary>>),
       Cat(<<WordBoundary, Lit(<<97, 114, 116, 105, 99, 108, 101>>), Plus(Chars(Whitespace)), Plus(Chars(Digits)),
             Opt(Cat(<<Chars({45}), Plus(Chars(Digits))>>)), WordBoundary>>) >>

\* [int(d) for d in str(n)] for a str of decimal digits
DigitsOfStr(s) == [i \in 1..Len(s) |-> s[i] - 48]

\* [int(d) for d in str(n)] for an int n >= 0
RECURSIVE DigitsOfInt(_)
DigitsOfInt(n) == IF n < 10 THEN <<n>> ELSE Append(DigitsOfInt(n \div 10), n % 10)

\* digits[-1::-2]: the last digit and every second one before it
OddDigits(digits) ==
    [i \in 1..((Len(digits) + 1) \div 2) |-> digits[Len(digits) - 2 * (i - 1)]]

\* digits[-2::-2]: the last but one digit and every second one before it
EvenDigits(digits) ==
    [i \in 1..(Len(digits) \div 2) |-> digits[Len(digits) - 1 - 2 * (i - 1)]]

\* sum(digits_of(d*2))
DoubledDigitSum(d) == SumSeq(DigitsOfInt(d * 2))

\* A faulty variant of luhn_checksum: the doubled digits are added undivided.
luhn_checksum_undivided(card_num) ==
    LET digits == DigitsOfStr(card_num)
    IN  (SumSeq(OddDigits(digits))
         + SumSeq([i \in 1..Len(EvenDigits(digits)) |-> 2 * EvenDigits(digits)[i]])) % 10

\* luhn_checksum(card_num)
luhn_checksum(card_num) ==
    LET digits == DigitsOfStr(card_num)
    IN  (SumSeq(OddDigits(digits)) + SumSeq([i \in DOMAIN EvenDigits(digits) |-> DoubledDigitSum(EvenDigits(digits)[i])])) % 10

\* luhn_check(number)
luhn_check(number) == luhn_checksum(number) = 0

\* The replacement literals of extract_entities.
PhoneReplacement == <<48, 54, 32, 88, 88, 32, 88, 88, 32, 88, 88, 32, 88, 88>>       \* "06 XX XX XX XX"
EmailReplacement ==                  \* "[email.anonymise@exemple.fr]"
    <<91, 101, 109, 97, 105, 108, 46, 97, 110, 111, 110, 121, 109, 105, 115, 101, 64, 101, 120, 101, 109, 112, 108, 101, 46, 102, 114, 93>>
SiretReplacement ==                  \* "[SIRET Anonymisé]"
    <<91, 83, 73, 82, 69, 84, 32, 65, 110, 111, 110, 121, 109, 105, 115, 233, 93>>
SsnReplacement ==                    \* "[N° Sécurité Sociale Anonymisé]"
    <<91, 78, 176, 32, 83, 233, 99, 117, 114, 105, 116, 233, 32, 83, 111, 99, 105, 97, 108, 101, 32, 65, 110, 111, 110, 121, 109, 105, 115, 233, 93>>
AddressReplacement ==                \* "[Adresse Anonymisée]"
    <<91, 65, 100, 114, 101, 115, 115, 101, 32, 65, 110, 111, 110, 121, 109, 105, 115, 233, 101, 93>>
LegalReplacement ==                  \* "[Référence Anonymisée]"
    <<91, 82, 233, 102, 233, 114, 101, 110, 99, 101, 32, 65, 110, 111, 110, 121, 109, 105, 115, 233, 101, 93>>

\* The entity appended for one match (its id is given when the list is
\* complete, in creation order).
RegexEntity(text, type, replacement, m) ==
    Entity(0, Slice(text, m.start, m.end), type, "REGEX", 100, replacement, <<m>>, TRUE)

\* for match in re.finditer(pattern, text): entities.append(Entity(...))
MatchesOf(pattern, ic, text, type, replacement) ==
    LET found == FindIter(pattern, ic, text)
    IN  [i \in 1..Len(found) |-> RegexEntity(text, type, replacement, found[i])]

\* for pattern in patterns: for match in re.finditer(pattern, text): ...
RECURSIVE MatchesOfAll(_, _, _, _, _)
MatchesOfAll(patterns, ic, text, type, replacement) ==
    IF patterns = <<>> THEN <<>>
    ELSE MatchesOf(Head(patterns), ic, text, type, replacement)
         \o MatchesOfAll(Tail(patterns), ic, text, type, replacement)

\* Each entity gets its own uuid4: the number of entities created before it
\* in the request, plus one.
WithIds(entities, created) ==
    [i \in 1..Len(entities) |-> [entities[i] EXCEPT !.id = created + i]]

\* The SIRET rule: if self.luhn_check(siret): entities.append(...)
SiretEntities(text) ==
    SelectSeq(MatchesOf(siret_pattern, FALSE, text, "siret", SiretReplacement),
              LAMBDA entity : luhn_check(entity.text))

\* RegexService.extract_entities(text)
RegexService_extract_entities(text) ==
    WithIds(
        MatchesOfAll(phone_patterns, FALSE, text, "phone", PhoneReplacement)
        \o MatchesOf(email_pattern, FALSE, text, "email", EmailReplacement)
        \o SiretEntities(text)
        \o MatchesOf(ssn_pattern, FALSE, text, "ssn", SsnReplacement)
        \o MatchesOfAll(address_patterns, TRUE, text, "address", AddressReplacement)
        \o MatchesOfAll(legal_patterns, TRUE, text, "legal", LegalReplacement),
        0)

----------------------------------------------------------------------------
(* NERService *)

\* The labels of the entities the spaCy pipeline reports.
SpacyLabels == {"PER", "ORG", "LOC"}

\* The spans of the maximal runs of non-whitespace characters of text, from
\* offset pos on.
RECURSIVE TokensFrom(_, _)
TokensFrom(text, pos) ==
    IF pos >= Len(text) THEN {}
    ELSE IF text[pos + 1] \in Whitespace THEN TokensFrom(text, pos + 1)
    ELSE LET stops == { j \in (pos + 1)..Len(text) :
                          j = Len(text) \/ text[j + 1] \in Whitespace }
             end == CHOOSE j \in stops : \A k \in stops : j <= k
         IN  { Position(pos, end) } \cup TokensFrom(text, end)

\* The spans self.nlp(text) may report as entities: runs of whole tokens.
EntSpans(text) ==
    LET tokens == TokensFrom(text, 0)
    IN  { Position(ab[1].start, ab[2].end) :
            ab \in { tt \in tokens \X tokens : tt[1].start <= tt[2].start } }

\* The values doc.ents may take for text: at most `most` labelled spans, in
\* text order, no two overlapping.  The model's inference is external: any of
\* these values may be returned.
SpacyEnts(text, most) ==
    LET chosen == { S \in SUBSET EntSpans(text) :
                      /\ Cardinality(S) <= most
                      /\ \A p, q \in S : p # q => (p.end <= q.start \/ q.end <= p.start) }
        Ordered(S) == CHOOSE s \in [1..Cardinality(S) -> S] :
                          \A i, j \in 1..Cardinality(S) : i < j => s[i].start < s[j].start
    IN  UNION { { [i \in 1..Cardinality(S) |->
                     [label_ |-> labels[i], start_char |-> Ordered(S)[i].start,
                      end_char |-> Ordered(S)[i].end]] :
                  labels \in [1..Cardinality(S) -> SpacyLabels] } : S \in chosen }

PersonPrefix == <<80, 101, 114, 115, 111, 110, 110, 101, 32>>          \* "Personne "
OrganisationPrefix == <<79, 114, 103, 97, 110, 105, 115, 97, 116, 105, 111, 110, 32>>    \* "Organisation "

\* The Entity appended for ent in the "PER" and the "ORG" branch; the
\* pipeline registers no `confidence` extension, so the defaults 0.9 and 0.85
\* are taken.
PersonEntity(text, ent, counter) ==
    Entity(0, Slice(text, ent.start_char, ent.end_char), "person", "NER", 90,
           PersonPrefix \o <<64 + counter>>,
           <<Position(ent.start_char, ent.end_char)>>, TRUE)

OrganizationEntity(text, ent, counter) ==
    Entity(0, Slice(text, ent.start_char, ent.end_char), "organization", "NER", 85,
           OrganisationPrefix \o <<64 + counter>>,
           <<Position(ent.start_char, ent.end_char)>>, TRUE)

\* for ent in doc.ents: ..., from the counters p and o of the service; the
\* entities appended and the counters at the end.
RECURSIVE NerLoop(_, _, _, _, _)
NerLoop(text, ents, p, o, entities) ==
    IF ents = <<>>
    THEN [entities |-> entities, person_counter |-> p, org_counter |-> o, raised |-> "none"]
    ELSE LET ent == Head(ents)
         IN  IF ent.label_ = "PER"
             THEN NerLoop(text, Tail(ents), p + 1, o, Append(entities, PersonEntity(text, ent, p)))
             ELSE IF ent.label_ = "ORG"
             THEN NerLoop(text, Tail(ents), p, o + 1,
                          Append(entities, OrganizationEntity(text, ent, o)))
             ELSE NerLoop(text, Tail(ents), p, o, entities)

\* A faulty variant of NERService_extract_entities: without `if not self.nlp`,
\* self.nlp(text) calls None.
NERService_extract_entities_unguarded(self_nlp, text, doc_ents, p, o) ==
    IF ~self_nlp
    THEN [entities |-> <<>>, person_counter |-> p, org_counter |-> o, raised |-> "TypeError"]
    ELSE NerLoop(text, doc_ents, p, o, <<>>)

\* NERService.extract_entities(text) on a service whose nlp is loaded or not
\* and whose counters are p and o, when self.nlp(text).ents is doc_ents: the
\* list returned and the counters it leaves.
NERService_extract_entities(self_nlp, text, doc_ents, p, o) ==
    IF ~self_nlp
    THEN [entities |-> <<>>, person_counter |-> p, org_counter |-> o, raised |-> "none"]
    ELSE NerLoop(text, doc_ents, p, o, <<>>)

----------------------------------------------------------------------------
(* process_document *)

\* ProcessingMode
ProcessingMode == {"standard", "advanced", "ollama"}

\* key = (entity.text, entity.positions[0].start, entity.positions[0].end)
DedupKey(entity) == <<entity.text, entity.positions[1].start, entity.positions[1].end>>

\* for entity in all_entities: if key not in seen: seen.add(key);
\* unique_entities.append(entity)
RECURSIVE DedupLoop(_, _, _)
DedupLoop(all_entities, seen, unique_entities) ==
    IF all_entities = <<>> THEN unique_entities
    ELSE LET entity == Head(all_entities)
             key == DedupKey(entity)
         IN  IF key \notin seen
             THEN DedupLoop(Tail(all_entities), seen \cup {key}, Append(unique_entities, entity))
             ELSE DedupLoop(Tail(all_entities), seen, unique_entities)

\* A faulty variant of Deduplicate: the duplicate is removed from the list being
\* iterated, so the entity after it is skipped.
RECURSIVE DedupInPlaceLoop(_, _, _)
DedupInPlaceLoop(all_entities, seen, unique_entities) ==
    IF all_entities = <<>> THEN unique_entities
    ELSE LET entity == Head(all_entities)
             key == DedupKey(entity)
         IN  IF key \notin seen
             THEN DedupInPlaceLoop(Tail(all_entities), seen \cup {key},
                                   Append(unique_entities, entity))
             ELSE IF Len(all_entities) = 1 THEN unique_entities
             ELSE DedupInPlaceLoop(Tail(Tail(all_entities)), seen,
                                   Append(unique_entities, all_entities[2]))

DeduplicateInPlace(all_entities) == DedupInPlaceLoop(all_entities, {}, <<>>)

\* A faulty variant of Deduplicate: the last entity of each key is kept.
RECURSIVE DedupKeepLast(_)
DedupKeepLast(all_entities) ==
    IF all_entities = <<>> THEN <<>>
    ELSE IF \E i \in 2..Len(all_entities) : DedupKey(all_entities[i]) = DedupKey(all_entities[1])
    THEN DedupKeepLast(Tail(all_entities))
    ELSE <<Head(all_entities)>> \o DedupKeepLast(Tail(all_entities))

\* The block "Remove duplicates based on text and position".
Deduplicate(all_entities) == DedupLoop(all_entities, {}, <<>>)

\* A faulty variant of RunsNer: the NER stage runs in every mode.
RunsNerAlways(mode, nlp_loaded) == nlp_loaded

\* if request.mode == ProcessingMode.ADVANCED and nlp
RunsNer(mode, nlp_loaded) == mode = "advanced" /\ nlp_loaded

\* The NER stage of process_document: the result of ner_service's
\* extract_entities when the stage runs, nothing otherwise.
NerStage(mode, nlp_loaded, content, doc_ents, p, o) ==
    IF RunsNer(mode, nlp_loaded)
    THEN NERService_extract_entities(nlp_loaded, content, doc_ents, p, o)
    ELSE [entities |-> <<>>, person_counter |-> p, org_counter |-> o, raised |-> "none"]

----------------------------------------------------------------------------
(* OllamaService *)

\* OllamaConfig(): the defaults of the class.
DefaultOllamaConfig ==
    [url |-> "http://localhost:11434", model |-> "llama3.2:3b",
     custom_prompt |-> "None", timeout |-> 30]

ModelNames == {"llama3.2:3b", "mistral:7b"}

\* The entries of the "models" array of /api/tags: with a "name" or without.
ModelEntries ==
    { [has_name |-> TRUE, name |-> n] : n \in ModelNames }
    \cup { [has_name |-> FALSE, name |-> ""] }

\* The bodies a server may answer with: not JSON, an object without
\* "models", an object with at most MaxModels entries.
HttpBodies ==
    { [kind |-> "not_json", models |-> <<>>], [kind |-> "no_models", models |-> <<>>] }
    \cup { [kind |-> "models", models |-> m] :
             m \in UNION { [1..k -> ModelEntries] : k \in 0..MaxModels } }

\* What `await client.get(url + "/api/tags", timeout=...)` may do: raise
\* (connection refused, timeout) or return a response.
HttpOutcomes ==
    { [kind |-> "raise", exc |-> e, status |-> 0, body |-> [kind |-> "none", models |-> <<>>]] :
        e \in {"ConnectError", "TimeoutException"} }
    \cup { [kind |-> "response", exc |-> "none", status |-> st, body |-> b] :
             st \in {200, 404, 500}, b \in HttpBodies }

\* A faulty variant of check_availability: without the try/except.
check_availability_unguarded(outcome) ==
    IF outcome.kind = "raise" THEN [raised |-> outcome.exc, value |-> FALSE]
    ELSE [raised |-> "none", value |-> outcome.status = 200]

\* OllamaService.check_availability(), given what the GET did.
check_availability(outcome) ==
    IF outcome.kind = "raise" THEN [raised |-> "none", value |-> FALSE]
    ELSE [raised |-> "none", value |-> outcome.status = 200]

\* [model["name"] for model in data.get("models", [])]; response.json() and
\* model["name"] raise inside the try.
ModelNamesOf(body) ==
    IF body.kind = "models" /\ \A i \in 1..Len(body.models) : body.models[i].has_name
    THEN [i \in 1..Len(body.models) |-> body.models[i].name]
    ELSE <<>>

\* OllamaService.get_available_models(), given what the GET did.
get_available_models(outcome) ==
    IF outcome.kind = "response" /\ outcome.status = 200
    THEN [raised |-> "none", value |-> ModelNamesOf(outcome.body)]
    ELSE [raised |-> "none", value |-> <<>>]

----------------------------------------------------------------------------
(* DocumentProcessor.apply_anonymization *)

\* key=lambda x: x.positions[0].start
SortKey(e) == e.positions[1].start

\* Insert e into a list already sorted by descending key, after every element
\* whose key is >= its own: sorted(..., reverse=True) is stable, elements with
\* equal keys keep their original relative order.
RECURSIVE InsertDesc(_, _)
InsertDesc(e, s) ==
    IF s = <<>> THEN <<e>>
    ELSE IF SortKey(Head(s)) < SortKey(e) THEN <<e>> \o s
    ELSE <<Head(s)>> \o InsertDesc(e, Tail(s))

RECURSIVE SortDesc(_)
SortDesc(s) ==
    IF s = <<>> THEN <<>>
    ELSE InsertDesc(s[Len(s)], SortDesc(SubSeq(s, 1, Len(s) - 1)))

IsSelected(e) == e.selected

\* A faulty variant of sorted_entities: the filter without the sort.
UnsortedEntities(entities) == SelectSeq(entities, IsSelected)

\* sorted([e for e in entities if e.selected], key=..., reverse=True)
SortedEntities(entities) == SortDesc(SelectSeq(entities, IsSelected))

\* A faulty variant of Splice: the tail is taken from pos.start, the matched text
\* is kept.
SpliceKeepingMatch(result, entity) ==
    LET pos == entity.positions[1]
    IN  SliceTo(result, pos.start) \o entity.replacement \o SliceFrom(result, pos.start)

\* A faulty variant of Splice: the last position of the entity is applied.
SpliceLastPosition(result, entity) ==
    LET pos == entity.positions[Len(entity.positions)]
    IN  SliceTo(result, pos.start) \o entity.replacement \o SliceFrom(result, pos.end)

\* result[:pos.start] + entity.replacement + result[pos.end:]
Splice(result, entity) ==
    LET pos == entity.positions[1]
    IN  SliceTo(result, pos.start) \o entity.replacement \o SliceFrom(result, pos.end)

\* The for loop over sorted_entities, from the working text `result`.
RECURSIVE SpliceAll(_, _)
SpliceAll(result, sorted) ==
    IF sorted = <<>> THEN result
    ELSE SpliceAll(Splice(result, Head(sorted)), Tail(sorted))

\* The sort key reads positions[0] of every selected entity: IndexError when
\* one has no position.
RaisesIndexError(entities) ==
    \E i \in 1..Len(entities) : entities[i].selected /\ entities[i].positions = <<>>

\* apply_anonymization(content, entities) as a function of its arguments
\* (defined when it does not raise).
apply_anonymization(content, entities) ==
    SpliceAll(content, SortedEntities(entities))

----------------------------------------------------------------------------
(* Inputs of /generate-document *)

\* original_content of the rewrite requests: "abc".
RewriteTexts == { <<97, 98, 99>> }

\* Replacement of the entity with the given id: "X", "YY", "ZZZ", ...
ReplacementOf(id) == [i \in 1..id |-> 87 + id]

\* First positions a caller may send for a text of length n: every span
\* with -1 <= start <= end <= n + 1 (empty, overhanging and negative ones
\* included; Position validates nothing).
SpanChoices(n) ==
    { p \in [start : (-1)..n, end : 0..(n + 1)] : p.start <= p.end }

\* The position lists with a second position a caller may send.
MultiPositions ==
    { <<Position(0, 1), Position(2, 3)>>, <<Position(1, 2), Position(0, 3)>> }

\* The entities with the given id a caller may build for the text `content`:
\* selected with any first position, with two positions or with no position
\* at all, or not selected.
CallerEntity(content, id) ==
    { Entity(id, Slice(content, p.start, p.end), "person", "MANUAL", 100,
             ReplacementOf(id), <<p>>, TRUE) : p \in SpanChoices(Len(content)) }
    \cup { Entity(id, <<>>, "person", "MANUAL", 100, ReplacementOf(id), <<>>, TRUE) }
    \cup { Entity(id, Slice(content, p.start, p.end), "person", "MANUAL", 100,
                  ReplacementOf(id), <<p>>, FALSE) :
             p \in { Position(0, 1), Position(1, 3) } }
    \cup { Entity(id, Slice(content, ps[1].start, ps[1].end), "person", "MANUAL", 100,
                  ReplacementOf(id), ps, TRUE) : ps \in MultiPositions }
    \cup { Entity(id, <<>>, "person", "MANUAL", 100, ReplacementOf(id), <<>>, FALSE) }

\* The sequences without repetition over 1..n.
IdSeqs(n) ==
    { s \in UNION { [1..k -> 1..n] : k \in 0..n } :
        \A i, j \in 1..Len(s) : i < j => s[i] # s[j] }

RECURSIVE EntityListsOver(_, _)
EntityListsOver(content, ids) ==
    IF ids = <<>> THEN { <<>> }
    ELSE { <<e>> \o rest : e \in CallerEntity(content, Head(ids)),
                           rest \in EntityListsOver(content, Tail(ids)) }

----------------------------------------------------------------------------
(* Inputs of /process *)

\* The documents of the processing requests.
Contents ==
    { <<97, 64, 98, 46, 102, 114, 32, 74, 101, 97, 110>>,      \* "a@b.fr Jean"
      <<55, 53, 48, 48, 49, 32, 114, 117, 101, 32, 70, 111, 99, 104>>,                  \* "75001 rue Foch"
      <<55, 51, 50, 56, 50, 57, 51, 50, 48, 48, 48, 48, 55, 52>>,                  \* "73282932000074"
      <<83, 97, 109, 32, 101, 116, 32, 65, 99, 109, 101>>,                                    \* "Sam et Acme"
      <<55, 53, 48, 48, 49, 32, 114, 117, 101, 32, 65, 45, 66>> }      \* "75001 rue A-B"

\* The two SIRET numbers of the specification's scenarios.
SiretExamples ==
    { <<55, 51, 50, 56, 50, 57, 51, 50, 48, 48, 48, 48, 55, 52>>,     \* "73282932000074"
      <<49, 50, 51, 52, 53, 54, 55, 56, 57, 48, 49, 50, 51, 52>> }    \* "12345678901234"

\* 14-digit numbers: the first digits of an example, then FreeDigits digits.
SiretNumbers ==
    { SubSeq(x, 1, 14 - FreeDigits) \o tail :
        x \in SiretExamples, tail \in [1..FreeDigits -> Digits] }

\* Each number alone, inside a sentence, followed by a fifteenth digit and
\* glued to a letter.
SiretTexts ==
    { c[1] \o n \o c[2] :
        n \in SiretNumbers,
        c \in { << <<>>, <<>> >>, << <<83, 73, 82, 69, 84, 32>>, <<46>> >>, << <<>>, <<53>> >>, << <<110>>, <<>> >> } }

----------------------------------------------------------------------------
(* The handlers *)

NoResponse == [op |-> "none"]
NoRequest == [op |-> "none"]
NoLocals == [op |-> "none"]

Init ==
    /\ nlp \in BOOLEAN
    /\ person_counter = 1
    /\ org_counter = 1
    /\ pc = "idle"
    /\ req = NoRequest
    /\ loc = NoLocals
    /\ resp = NoResponse
    /\ last_probe = <<>>

\* POST /generate-document, up to the sort of apply_anonymization, for a
\* text and at most MaxEntities entities with distinct ids.  An exception
\* of apply_anonymization is caught by the handler and answered with status
\* 500.
GenerateCall ==
    /\ pc = "idle"
    /\ \E content \in RewriteTexts : \E ids \in IdSeqs(MaxEntities) :
       \E entities \in EntityListsOver(content, ids) :
          /\ req' = [op |-> "generate", original_content |-> content,
                     entities |-> entities]
          /\ IF RaisesIndexError(entities)
             THEN /\ pc' = "done"
                  /\ loc' = NoLocals
                  /\ resp' = [op |-> "generate", status |-> 500, raised |-> "IndexError"]
             ELSE /\ pc' = "splice"
                  /\ loc' = [op |-> "generate",
                             sorted_entities |-> SortedEntities(entities),
                             done |-> <<>>, result |-> content]
                  /\ resp' = NoResponse
    /\ UNCHANGED <<nlp, person_counter, org_counter, last_probe>>

\* One iteration of `for entity in sorted_entities`.
SpliceStep ==
    /\ pc = "splice"
    /\ loc.sorted_entities # <<>>
    /\ loc' = [loc EXCEPT !.sorted_entities = Tail(@),
                          !.done = Append(@, Head(loc.sorted_entities)),
                          !.result = Splice(@, Head(loc.sorted_entities))]
    /\ UNCHANGED <<nlp, person_counter, org_counter, pc, req, resp, last_probe>>

\* return result; the handler wraps the text into the document it streams.
GenerateReturn ==
    /\ pc = "splice"
    /\ loc.sorted_entities = <<>>
    /\ pc' = "done"
    /\ resp' = [op |-> "generate", status |-> 200, raised |-> "none",
                anonymized_content |-> loc.result]
    /\ loc' = NoLocals
    /\ UNCHANGED <<nlp, person_counter, org_counter, req, last_probe>>

\* POST /process: process_document(request).  processing_time, a clock
\* difference, is left out of the response.
ProcessDocument ==
    /\ pc = "idle"
    /\ \E content \in Contents : \E mode \in ProcessingMode :
       \E doc_ents \in (IF RunsNer(mode, nlp) THEN SpacyEnts(content, MaxEnts) ELSE { <<>> }) :
          LET regex_entities == RegexService_extract_entities(content)
              ner == NerStage(mode, nlp, content, doc_ents, person_counter, org_counter)
              ner_entities == WithIds(ner.entities, Len(regex_entities))
              all_entities == regex_entities \o ner_entities
              unique_entities == Deduplicate(all_entities)
          IN  /\ ner.person_counter <= MaxCounter
              /\ ner.org_counter <= MaxCounter
              /\ person_counter' = ner.person_counter
              /\ org_counter' = ner.org_counter
              /\ req' = [op |-> "process", content |-> content, mode |-> mode]
              /\ loc' = [op |-> "process", regex_entities |-> regex_entities,
                         doc_ents |-> doc_ents, ner_entities |-> ner_entities,
                         all_entities |-> all_entities]
              /\ resp' = IF ner.raised # "none"
                         THEN [op |-> "process", status |-> 500, raised |-> ner.raised]
                         ELSE [op |-> "process", status |-> 200, raised |-> "none",
                               entities |-> unique_entities, mode_used |-> mode,
                               total_occurrences |-> Len(unique_entities),
                               spacy_available |-> nlp, ollama_available |-> FALSE]
    /\ pc' = "done"
    /\ UNCHANGED <<nlp, last_probe>>

\* ner_service.extract_entities(text), called on the shared adapter.
NerExtract ==
    /\ pc = "idle"
    /\ \E text \in Contents :
       \E doc_ents \in (IF nlp THEN SpacyEnts(text, MaxEnts) ELSE { <<>> }) :
          LET ner == NERService_extract_entities(nlp, text, doc_ents,
                                                 person_counter, org_counter)
          IN  /\ ner.person_counter <= MaxCounter
              /\ ner.org_counter <= MaxCounter
              /\ person_counter' = ner.person_counter
              /\ org_counter' = ner.org_counter
              /\ req' = [op |-> "ner_extract", content |-> text]
              /\ loc' = [op |-> "ner_extract", doc_ents |-> doc_ents,
                         ner_entities |-> ner.entities]
              /\ resp' = [op |-> "ner_extract", raised |-> ner.raised,
                          entities |-> ner.entities]
    /\ pc' = "done"
    /\ UNCHANGED <<nlp, last_probe>>

\* regex_service.extract_entities(text) on a text around a 14-digit number.
RegexExtract ==
    /\ pc = "idle"
    /\ \E text \in SiretTexts :
          /\ req' = [op |-> "regex_extract", content |-> text]
          /\ resp' = [op |-> "regex_extract", raised |-> "none",
                      entities |-> RegexService_extract_entities(text)]
    /\ pc' = "done"
    /\ loc' = NoLocals
    /\ UNCHANGED <<nlp, person_counter, org_counter, last_probe>>

\* GET /health
HealthCheck ==
    /\ pc = "idle"
    /\ req' = [op |-> "health"]
    /\ resp' = [op |-> "health", status |-> "healthy", spacy_available |-> nlp,
                ollama_available |-> FALSE]
    /\ pc' = "done"
    /\ loc' = NoLocals
    /\ UNCHANGED <<nlp, person_counter, org_counter, last_probe>>

\* POST /test-ollama, up to `await service.check_availability()`.
TestOllamaCall ==
    /\ pc = "idle"
    /\ req' = [op |-> "test_ollama", config |-> DefaultOllamaConfig]
    /\ loc' = [op |-> "test_ollama"]
    /\ pc' = "check_availability"
    /\ resp' = NoResponse
    /\ UNCHANGED <<nlp, person_counter, org_counter, last_probe>>

\* check_availability returns; `models = ... if available else []`, and the
\* handler answers at once when the server is not available.
CheckAvailabilityReturns ==
    /\ pc = "check_availability"
    /\ \E outcome \in HttpOutcomes :
          LET available == check_availability(outcome)
          IN  /\ last_probe' = IF available.raised # "none" THEN last_probe
                               ELSE <<available.value>>
              /\ IF available.raised # "none"
                 THEN /\ pc' = "done"
                      /\ loc' = [op |-> "test_ollama", probe |-> outcome]
                      /\ resp' = [op |-> "test_ollama", status |-> 500,
                                  raised |-> available.raised]
                 ELSE IF available.value
                 THEN /\ pc' = "get_available_models"
                      /\ loc' = [op |-> "test_ollama", probe |-> outcome, available |-> TRUE]
                      /\ resp' = NoResponse
                 ELSE /\ pc' = "done"
                      /\ loc' = [op |-> "test_ollama", probe |-> outcome, available |-> FALSE]
                      /\ resp' = [op |-> "test_ollama", status |-> 200, raised |-> "none",
                                  connected |-> FALSE, models |-> <<>>,
                                  config |-> req.config]
    /\ UNCHANGED <<nlp, person_counter, org_counter, req>>

\* GET /ollama-models, up to `await service.get_available_models()`.
OllamaModelsCall ==
    /\ pc = "idle"
    /\ req' = [op |-> "ollama_models", config |-> DefaultOllamaConfig]
    /\ loc' = [op |-> "ollama_models", available |-> FALSE]
    /\ pc' = "get_available_models"
    /\ resp' = NoResponse
    /\ UNCHANGED <<nlp, person_counter, org_counter, last_probe>>

\* get_available_models returns and the handler answers.
GetAvailableModelsReturns ==
    /\ pc = "get_available_models"
    /\ \E outcome \in HttpOutcomes :
          LET models == get_available_models(outcome)
          IN  /\ loc' = [loc EXCEPT !.op = req.op] @@ [listing |-> outcome]
              /\ resp' = IF models.raised # "none"
                         THEN [op |-> req.op, status |-> 500, raised |-> models.raised]
                         ELSE IF req.op = "test_ollama"
                         THEN [op |-> req.op, status |-> 200, raised |-> "none",
                               connected |-> loc.available, models |-> models.value,
                               config |-> req.config]
                         ELSE [op |-> req.op, status |-> 200, raised |-> "none",
                               models |-> models.value]
    /\ pc' = "done"
    /\ UNCHANGED <<nlp, person_counter, org_counter, req, last_probe>>

\* The client has read the response; the server waits for the next request.
Deliver ==
    /\ pc = "done"
    /\ pc' = "idle"
    /\ req' = NoRequest
    /\ loc' = NoLocals
    /\ resp' = NoResponse
    /\ UNCHANGED <<nlp, person_counter, org_counter, last_probe>>

\* The server: every endpoint, and the two services called directly.
Next ==
    \/ ProcessDocument
    \/ NerExtract
    \/ RegexExtract
    \/ HealthCheck
    \/ TestOllamaCall
    \/ CheckAvailabilityReturns
    \/ OllamaModelsCall
    \/ GetAvailableModelsReturns
    \/ GenerateCall
    \/ SpliceStep
    \/ GenerateReturn
    \/ Deliver

Spec == Init /\ [][Next]_vars

\* The rewrite alone: /generate-document requests.
NextRewrite ==
    \/ GenerateCall
    \/ SpliceStep
    \/ GenerateReturn
    \/ Deliver

SpecRewrite == Init /\ [][NextRewrite]_vars

\* The extraction pipeline: /process requests, calls of the NER adapter and
\* health queries.
NextProcess ==
    \/ ProcessDocument
    \/ NerExtract
    \/ HealthCheck
    \/ Deliver

SpecProcess == Init /\ [][NextProcess]_vars

\* The pattern extractor on the sample SIRET texts.
NextRegex ==
    \/ RegexExtract
    \/ Deliver

SpecRegex == Init /\ [][NextRegex]_vars

\* The Ollama endpoints and the health query.
NextOllama ==
    \/ TestOllamaCall
    \/ CheckAvailabilityReturns
    \/ OllamaModelsCall
    \/ GetAvailableModelsReturns
    \/ HealthCheck
    \/ Deliver

SpecOllama == Init /\ [][NextOllama]_vars

----------------------------------------------------------------------------
(* Vocabulary of the properties *)

\* [e for e in entities if e.selected], in input order.
Selected(entities) == SelectSeq(entities, IsSelected)

\* A /generate-document request has been answered and not yet delivered.
Generated == pc = "done" /\ req.op = "generate"

\* Every selected entity has a first position.
HasFirstPositions(entities) ==
    \A i \in 1..Len(entities) : entities[i].selected => entities[i].positions # <<>>

\* The Position invariant of the data model: 0 <= start < end <= len(text).
InRange(p, n) == 0 <= p.start /\ p.start < p.end /\ p.end <= n

\* A span with at least one character.
NonEmpty(p) == p.start < p.end

\* Two half-open spans intersect.
Overlap(p, q) == p.start < q.end /\ q.start < p.end

\* The first positions of the selected entities are pairwise non-overlapping.
NonOverlapping(entities) ==
    LET sel == Selected(entities)
    IN  \A i, j \in 1..Len(sel) :
            i < j => ~Overlap(sel[i].positions[1], sel[j].positions[1])

AllSelected(Test(_), entities) ==
    LET sel == Selected(entities)
    IN  \A i \in 1..Len(sel) : Test(sel[i].positions[1])

\* The text the rewrite is specified to produce, character by character of
\* the original from offset k on: at the start of a selected span its
\* replacement, inside a selected span nothing, elsewhere the character.
RECURSIVE Rewritten(_, _, _)
Rewritten(content, sel, k) ==
    IF k >= Len(content) THEN <<>>
    ELSE LET starting == { i \in 1..Len(sel) : sel[i].positions[1].start = k }
             covered == \E i \in 1..Len(sel) :
                            /\ sel[i].positions[1].start <= k
                            /\ k < sel[i].positions[1].end
         IN  (IF starting = {} THEN <<>> ELSE sel[CHOOSE i \in starting : TRUE].replacement)
             \o (IF covered THEN <<>> ELSE <<content[k + 1]>>)
             \o Rewritten(content, sel, k + 1)

MatchedLength(e) == e.positions[1].end - e.positions[1].start
ReplacementLength(e) == Len(e.replacement)

----------------------------------------------------------------------------
(* C1: for spans that are in range and pairwise non-overlapping, the text   *)
(* returned by apply_anonymization is the original with each selected span *)
(* replaced exactly by its replacement and every other character kept in   *)
(* order, and its length is len(original) - sum(matched) + sum(replacement) *)

C1_Precondition ==
    /\ HasFirstPositions(req.entities)
    /\ AllSelected(LAMBDA p : InRange(p, Len(req.original_content)), req.entities)
    /\ NonOverlapping(req.entities)

C1_RewriteCorrect ==
    (Generated /\ C1_Precondition) =>
        LET sel == Selected(req.entities)
        IN  /\ resp.status = 200
            /\ resp.anonymized_content = Rewritten(req.original_content, sel, 0)
            /\ Len(resp.anonymized_content) =
                   Len(req.original_content)
                   - SumSeq([i \in DOMAIN sel |-> MatchedLength(sel[i])])
                   + SumSeq([i \in DOMAIN sel |-> ReplacementLength(sel[i])])

\* Two selected spans, sent in ascending order, whose replacements change
\* the length of the text.
C1_Witness ==
    /\ Generated /\ C1_Precondition
    /\ Len(Selected(req.entities)) >= 2
    /\ SortedEntities(req.entities) # Selected(req.entities)
    /\ Len(resp.anonymized_content) # Len(req.original_content)

----------------------------------------------------------------------------
(* C2: for non-empty, pairwise non-overlapping selected spans (in range or *)
(* not), apply_anonymization returns the text it returned for this request *)
(* for every permutation of the entity list                                *)

C2_Precondition ==
    /\ HasFirstPositions(req.entities)
    /\ AllSelected(NonEmpty, req.entities)
    /\ NonOverlapping(req.entities)

Permuted(entities, p) == [i \in 1..Len(entities) |-> entities[p[i]]]

C2_OrderIndependent ==
    (Generated /\ C2_Precondition) =>
        \A p \in Permutations(1..Len(req.entities)) :
            apply_anonymization(req.original_content, Permuted(req.entities, p))
                = resp.anonymized_content

\* Two selected spans with different replacements, one of them overhanging
\* the text, sent in ascending order.
C2_Witness ==
    /\ Generated /\ C2_Precondition
    /\ Len(Selected(req.entities)) >= 2
    /\ SortedEntities(req.entities) # Selected(req.entities)
    /\ resp.anonymized_content # req.original_content

----------------------------------------------------------------------------
(* C8: called with selected spans that overlap or with a selected position *)
(* outside the text, apply_anonymization fails with InvalidSelectionError  *)
(* and returns no text                                                     *)

OutOfBounds(p, n) == p.start < 0 \/ p.end > n

C8_Misuse ==
    /\ HasFirstPositions(req.entities)
    /\ \/ ~NonOverlapping(req.entities)
       \/ ~AllSelected(LAMBDA p : ~OutOfBounds(p, Len(req.original_content)), req.entities)

C8_InvalidSelectionRejected ==
    (Generated /\ C8_Misuse) => resp.raised = "InvalidSelectionError"

----------------------------------------------------------------------------
(* C3: the naming counters are scoped to one extraction call: in every call *)
(* of the NER adapter, after any earlier calls, the Nth person detected    *)
(* gets "Personne " + letter(N) and the Nth organization "Organisation " + *)
(* letter(N), starting again at "A"                                        *)

\* An extraction by the NER adapter has returned.
NerExtracted ==
    /\ pc = "done"
    /\ req.op \in {"process", "ner_extract"}
    /\ resp.raised = "none"

\* The rank of the i-th NER entity among those of its type in this call.
RankInCall(entities, i) ==
    Cardinality({ j \in 1..i : entities[j].type = entities[i].type })

C3_CountersScopedToCall ==
    NerExtracted =>
        \A i \in 1..Len(loc.ner_entities) :
            LET e == loc.ner_entities[i]
                prefix == IF e.type = "person" THEN PersonPrefix ELSE OrganisationPrefix
            IN  e.replacement = prefix \o <<64 + RankInCall(loc.ner_entities, i)>>

----------------------------------------------------------------------------
(* C4: no two entities returned by process_document have the same (text,   *)
(* start, end) of their first position; for each key the entity kept is    *)
(* the first of the pooled list, pattern entities coming before NER        *)
(* entities, and the kept entities keep their relative order               *)

\* A /process request has been answered.
Processed == pc = "done" /\ req.op = "process" /\ resp.status = 200

\* The elements of s whose index is in idx, in the order of s.
RECURSIVE PickFrom(_, _, _)
PickFrom(s, idx, i) ==
    IF i > Len(s) THEN <<>>
    ELSE (IF i \in idx THEN <<s[i]>> ELSE <<>>) \o PickFrom(s, idx, i + 1)

\* The indices of the pool that are the first of their key.
FirstOfKey(all) ==
    { i \in 1..Len(all) : \A j \in 1..(i - 1) : DedupKey(all[j]) # DedupKey(all[i]) }

C4_DedupKeepsFirst ==
    Processed =>
        LET all == loc.all_entities
        IN  /\ \A i, j \in 1..Len(all) :
                  (all[i].source = "REGEX" /\ all[j].source = "NER") => i < j
            /\ \A i, j \in 1..Len(resp.entities) :
                  i < j => DedupKey(resp.entities[i]) # DedupKey(resp.entities[j])
            /\ resp.entities = PickFrom(all, FirstOfKey(all), 1)

\* A NER entity with the key of a pattern entity is dropped, and a NER
\* entity after it is kept.
C4_Witness ==
    /\ Processed
    /\ \E i, j, k \in 1..Len(loc.all_entities) :
          /\ i < j /\ j < k
          /\ loc.all_entities[i].source = "REGEX"
          /\ loc.all_entities[j].source = "NER"
          /\ DedupKey(loc.all_entities[i]) = DedupKey(loc.all_entities[j])
          /\ k \in FirstOfKey(loc.all_entities)
    /\ Len(resp.entities) < Len(loc.all_entities)

----------------------------------------------------------------------------
(* C5: deduplication is idempotent: applied to the entity list it returned *)
(* for a pooled list, it yields the same entities in the same order        *)

C5_DedupIdempotent ==
    Processed => Deduplicate(resp.entities) = resp.entities

\* A pool from which the deduplication removed two entities of one key.
C5_Witness ==
    /\ Processed
    /\ Len(resp.entities) + 2 <= Len(loc.all_entities)
    /\ Len(resp.entities) >= 1

----------------------------------------------------------------------------
(* C6: for every 14-digit string the SIRET rule matches, a siret entity is *)
(* emitted iff the total is 0 modulo 10, the total adding, counted from    *)
(* the rightmost digit, the digits at odd places as they are and the digit *)
(* sum of twice the digit at even places; a match that fails produces no   *)
(* entity at all; "73282932000074" is detected, "12345678901234" is not    *)

\* A call of the pattern extractor has returned.
RegexExtracted == pc = "done" /\ req.op = "regex_extract"

\* The k-th digit of s from the right, k = 1 for the rightmost.
DigitFromRight(s, k) == s[Len(s) - k + 1] - 48

\* The contribution of the k-th digit from the right to the total.
LuhnTerm(s, k) ==
    LET d == DigitFromRight(s, k)
    IN  IF k % 2 = 1 THEN d
        ELSE IF 2 * d > 9 THEN ((2 * d) \div 10) + ((2 * d) % 10) ELSE 2 * d

RECURSIVE LuhnTotalFrom(_, _)
LuhnTotalFrom(s, k) == IF k > Len(s) THEN 0 ELSE LuhnTerm(s, k) + LuhnTotalFrom(s, k + 1)

LuhnTotal(s) == LuhnTotalFrom(s, 1)

\* The entities of the response whose first position is the span m.
EntitiesAt(m) ==
    { i \in 1..Len(resp.entities) : resp.entities[i].positions[1] = m }

\* The matches of r'\b\d{14}\b' in the text of the request.
SiretMatches ==
    LET found == FindIter(siret_pattern, FALSE, req.content)
    IN  { found[i] : i \in 1..Len(found) }

C6_SiretIffChecksum ==
    RegexExtracted =>
        /\ \A m \in SiretMatches :
              LET digits == Slice(req.content, m.start, m.end)
              IN  IF LuhnTotal(digits) % 10 = 0
                  THEN \E i \in EntitiesAt(m) :
                          /\ resp.entities[i].type = "siret"
                          /\ resp.entities[i].text = digits
                          /\ resp.entities[i].replacement = SiretReplacement
                  ELSE EntitiesAt(m) = {}
        /\ \A i \in 1..Len(resp.entities) :
              resp.entities[i].type = "siret" => resp.entities[i].positions[1] \in SiretMatches
        /\ req.content = <<55, 51, 50, 56, 50, 57, 51, 50, 48, 48, 48, 48, 55, 52>>
              => \E i \in 1..Len(resp.entities) : resp.entities[i].type = "siret"
        /\ req.content = <<49, 50, 51, 52, 53, 54, 55, 56, 57, 48, 49, 50, 51, 52>>
              => resp.entities = <<>>

\* A number inside a sentence, with a digit at an even place whose double
\* exceeds 9, is detected.
C6_Witness ==
    /\ RegexExtracted
    /\ \E m \in SiretMatches :
          /\ m.start > 0
          /\ EntitiesAt(m) # {}
          /\ \E k \in {2, 4} : DigitFromRight(Slice(req.content, m.start, m.end), k) >= 5

----------------------------------------------------------------------------
(* C7: the mode selects the stages: standard pools only the pattern        *)
(* entities; advanced pools the pattern entities followed by the NER       *)
(* entities exactly when the model is loaded; the third mode (ollama, the  *)
(* specification's llm) returns what standard returns for the content; in  *)
(* every mode the result contains every entity of the pattern-only result  *)

\* The entities a standard request returns for the content.
PatternOnlyResult(content) == Deduplicate(RegexService_extract_entities(content))

\* The entities of doc.ents that the adapter converts.
NamedEnts(doc_ents) == SelectSeq(doc_ents, LAMBDA ent : ent.label_ \in {"PER", "ORG"})

C7_ModeSelectsStages ==
    Processed =>
        LET pattern == RegexService_extract_entities(req.content)
            spans == NamedEnts(loc.doc_ents)
        IN  /\ req.mode = "standard" => loc.all_entities = pattern
            /\ req.mode = "advanced" =>
                  /\ SubSeq(loc.all_entities, 1, Len(pattern)) = pattern
                  /\ Len(loc.all_entities) = Len(pattern) + (IF nlp THEN Len(spans) ELSE 0)
                  /\ \A i \in 1..(Len(loc.all_entities) - Len(pattern)) :
                        LET e == loc.all_entities[Len(pattern) + i]
                        IN  /\ e.source = "NER"
                            /\ e.positions = <<Position(spans[i].start_char, spans[i].end_char)>>
            /\ req.mode = "ollama" => resp.entities = PatternOnlyResult(req.content)
            /\ \A i \in 1..Len(PatternOnlyResult(req.content)) :
                  \E j \in 1..Len(resp.entities) :
                      resp.entities[j] = PatternOnlyResult(req.content)[i]

\* An advanced request, the model loaded, returns a pattern entity and a NER
\* entity.
C7_Witness ==
    /\ Processed
    /\ req.mode = "advanced" /\ nlp
    /\ \E i, j \in 1..Len(resp.entities) :
          resp.entities[i].source = "REGEX" /\ resp.entities[j].source = "NER"

----------------------------------------------------------------------------
(* C9: when the model failed to load, NERService.extract_entities returns  *)
(* the empty list without raising for every text, an advanced request      *)
(* returns exactly the pattern-only entities, and the response reports the *)
(* model as not available                                                  *)

C9_NerUnavailable ==
    ~nlp =>
        /\ (pc = "done" /\ req.op = "ner_extract") =>
              resp.raised = "none" /\ resp.entities = <<>>
        /\ (pc = "done" /\ req.op = "process" /\ req.mode = "advanced") =>
              /\ resp.status = 200
              /\ resp.entities = PatternOnlyResult(req.content)
              /\ resp.spacy_available = FALSE

\* An advanced request, the model not loaded, returns pattern entities.
C9_Witness ==
    /\ ~nlp
    /\ Processed
    /\ req.mode = "advanced"
    /\ resp.entities # <<>>
    /\ ~resp.spacy_available

----------------------------------------------------------------------------
(* C10: a failed network call of the Ollama adapter (raised, or answered   *)
(* with a status other than 200) is never raised to the caller:            *)
(* check_availability returns false, get_available_models returns the      *)
(* empty list, and /test-ollama answers connected false with no models     *)

Failed(outcome) == outcome.kind = "raise" \/ outcome.status # 200

C10_FailuresBecomeNegative ==
    /\ (pc = "done" /\ req.op \in {"test_ollama", "ollama_models"}) =>
          /\ resp.raised = "none" /\ resp.status = 200
          /\ (req.op = "test_ollama" /\ Failed(loc.probe)) =>
                resp.connected = FALSE /\ resp.models = <<>>
          /\ ("listing" \in DOMAIN loc /\ Failed(loc.listing)) => resp.models = <<>>
    /\ (pc = "get_available_models" /\ req.op = "test_ollama") => ~Failed(loc.probe)

\* /test-ollama has answered after the probe raised.
C10_Witness ==
    /\ pc = "done" /\ req.op = "test_ollama"
    /\ loc.probe.kind = "raise"
    /\ resp.status = 200 /\ ~resp.connected /\ resp.models = <<>>


----------------------------------------------------------------------------
(* C11: after any sequence of reachability probes and health queries, the  *)
(* health query reports ollama_available equal to what the most recent     *)
(* probe (check_availability) returned, and spacy_available equal to       *)
(* whether the NER model loaded at process start                           *)

\* A health query has been answered.
HealthAnswered == pc = "done" /\ req.op = "health"

C11_HealthReflectsLastProbe ==
    HealthAnswered =>
        /\ resp.spacy_available = nlp
        /\ last_probe # <<>> => resp.ollama_available = last_probe[1]


----------------------------------------------------------------------------
(* C12: at every step of the splice loop, every selected entity not yet    *)
(* processed has a start strictly smaller than that of the entity just     *)
(* spliced and lies entirely before the region just modified, so its       *)
(* offsets index in the working text the characters they index in the      *)
(* original text                                                           *)

\* The splice loop has run at least one iteration and has not returned.
InSpliceLoop == pc = "splice" /\ loc.done # <<>>

\* The entity of the last iteration, and whether entity e, still to be
\* processed, is untouched by that iteration.
JustSpliced == loc.done[Len(loc.done)]

PendingUntouched(e) ==
    LET pos == e.positions[1]
        modified == JustSpliced.positions[1]
    IN  /\ pos.start < modified.start
        /\ pos.end <= modified.start
        /\ Slice(loc.result, pos.start, pos.end)
               = Slice(req.original_content, pos.start, pos.end)

C12_PendingOffsetsValid ==
    InSpliceLoop =>
        \A i \in 1..Len(loc.sorted_entities) : PendingUntouched(loc.sorted_entities[i])

\* The same, for the requests whose selected first positions are in range
\* and pairwise non-overlapping.
C12_ValidSelectionsStayValid ==
    (InSpliceLoop /\ C1_Precondition) =>
        \A i \in 1..Len(loc.sorted_entities) : PendingUntouched(loc.sorted_entities[i])

\* A loop of a valid selection with an entity still to be processed.
C12_Witness ==
    /\ InSpliceLoop /\ C1_Precondition
    /\ loc.sorted_entities # <<>>
    /\ Len(loc.result) # Len(req.original_content)


----------------------------------------------------------------------------
(* C13: apply_anonymization rewrites only the first position of the        *)
(* entities whose selected flag is true: the output is the one obtained    *)
(* from the selected entities alone, each with its first position alone;   *)
(* with no selected entity the output is the input text; and the call      *)
(* changes neither the entity list nor any entity                          *)

\* The entities of the list whose flag is true, each cut to its first
\* position.
SelectedFirstPositions(entities) ==
    LET sel == SelectSeq(entities, LAMBDA e : e.selected)
    IN  [i \in DOMAIN sel |-> [sel[i] EXCEPT !.positions = <<sel[i].positions[1]>>]]

\* The rewrite has returned normally.
Rewrote == Generated /\ resp.status = 200

C13_OutputFromSelectedFirstPositions ==
    Rewrote =>
        LET kept == SelectedFirstPositions(req.entities)
        IN  /\ resp.anonymized_content
                   = apply_anonymization(req.original_content, kept)
            /\ kept = <<>> => resp.anonymized_content = req.original_content

\* While the rewrite runs, the request's entity list and entities stay as
\* they were received.
C13_ArgumentsUnchanged ==
    (pc = "splice" /\ pc' \in {"splice", "done"}) => req' = req

C13_OnlySelectedFirstPositions ==
    /\ []C13_OutputFromSelectedFirstPositions
    /\ [][C13_ArgumentsUnchanged]_vars

\* A rewrite of a list with an unselected entity and a selected entity of
\* two positions, which changed the text.
C13_Witness ==
    /\ Rewrote
    /\ \E i, j \in 1..Len(req.entities) :
          /\ ~req.entities[i].selected
          /\ req.entities[j].selected /\ Len(req.entities[j].positions) = 2
    /\ resp.anonymized_content # req.original_content


----------------------------------------------------------------------------
(* C14: every entity returned by process_document has an in-range first    *)
(* position and no two returned entities have intersecting spans, so the   *)
(* returned list, all selected, satisfies the rewriter's precondition      *)

C14_ReturnedSpansDisjoint ==
    Processed =>
        /\ \A i \in 1..Len(resp.entities) :
              /\ resp.entities[i].selected
              /\ resp.entities[i].positions # <<>>
              /\ InRange(resp.entities[i].positions[1], Len(req.content))
        /\ \A i, j \in 1..Len(resp.entities) :
              i < j => ~Overlap(resp.entities[i].positions[1],
                                resp.entities[j].positions[1])

\* The part of C14 that the extractors give: returned entities are selected
\* and have an in-range first position whose characters are their text.
C14_ReturnedSpansInRange ==
    Processed =>
        \A i \in 1..Len(resp.entities) :
            LET e == resp.entities[i]
            IN  /\ e.selected
                /\ e.positions # <<>>
                /\ InRange(e.positions[1], Len(req.content))
                /\ e.text = Slice(req.content, e.positions[1].start, e.positions[1].end)

\* The pattern extractor alone has returned two entities whose spans
\* intersect.
C14_PatternOverlap ==
    /\ Processed /\ req.mode = "standard"
    /\ \E i, j \in 1..Len(resp.entities) :
          i < j /\ Overlap(resp.entities[i].positions[1], resp.entities[j].positions[1])

=============================================================================
